---- MODULE Spec2Model ----
(***************************************************************************)
(* Model of runtime/src/context.rs: the Context that allocates, tracks and *)
(* reclaims plugin handles (PluginIndex), owns the live plugins, and holds *)
(* the last-error slot.                                                    *)
(***************************************************************************)
EXTENDS Integers, Sequences, FiniteSets, TLC

\* ------------------------------------------------------------ constants
\* PluginIndex::MAX, the largest value of the signed 32-bit PluginIndex.
MAX == 2147483647

\* const START_REUSING_IDS: usize = 25;
START_REUSING_IDS == 25

\* ------------------------------------------------------------ bounds
\* Fresh (fetch_add) allocations explored per run.
MaxFresh == 2

\* remove calls explored per run.
MaxRemoves == 1

\* Callers that race in next_id, one call each.
NThreads == 3

\* A session that has already churned: this many handles (0 .. Backlog-1)
\* were allocated and removed before the explored run starts, one short of
\* the reuse threshold.
Backlog == START_REUSING_IDS - 1

\* Handles allocated before the explored run starts, in a churned session.
Allocated == START_REUSING_IDS + 5

\* A long-lived session: the counter starts so close to MAX that the explored
\* run can reach MAX and still attempt one more fresh allocation.
NearMax == MAX - (MaxFresh - 1)

\* ------------------------------------------------------------ values
\* The smallest signed 32-bit value, what MAX + 1 wraps to.
MIN == (0 - MAX) - 1

\* Handles a caller passes without having obtained them in the explored run:
\* the negative "no valid result" sentinel and the first handle of a session.
KnownIds == {0 - 1, 0}

\* Opaque plugin instances.
Plugins == {"p1", "p2"}

\* Failure values handed to set_error / error.
Failures == {"e1", "e2"}

\* The error next_id returns when no handle is left.
ExhaustedError == "All plugin descriptors are in use, unable to allocate a new plugin"

\* Option<&mut Plugin>::None
NoPlugin == "None"

\* Option<CString>::None
NoError == [some |-> FALSE, msg |-> ""]

\* The sequence <<0, 1, ..., n-1>>.
Iota(n) == [i \in 1..n |-> i - 1]

\* The elements of a sequence.
Range(s) == {s[i] : i \in 1..Len(s)}

\* The racing callers.
Threads == 1..NThreads

\* No racing caller has entered next_id: pc is the caller's place in next_id,
\* seen the counter value its load obtained, ok and got what it returned.
Idle == [t \in Threads |-> [pc |-> "idle", seen |-> 0, ok |-> FALSE, got |-> 0]]

VARIABLES
    plugins,        \* Context.plugins: BTreeMap<PluginIndex, Plugin>
    error,          \* Context.error: Option<CString>
    next_id,        \* Context.next_id: AtomicI32
    reclaimed_ids,  \* Context.reclaimed_ids: VecDeque<PluginIndex>
    last,           \* the last call made on the Context and what it returned
    returned,       \* handles the caller has obtained from next_id
    held,           \* handles obtained from next_id and not inserted since
    removedSeq,     \* every id passed to remove, in call order
    reusedSeq,      \* every reclaimed id returned by next_id, in call order
    nfresh,         \* fresh allocations made in this run
    nremoves,       \* remove calls made in this run
    boot,           \* the counter and the queue length when the run starts
    race            \* the next_id calls of the racing callers

vars == <<plugins, error, next_id, reclaimed_ids, last, returned, held,
          removedSeq, reusedSeq, nfresh, nremoves, boot, race>>

\* ------------------------------------------------------------ helpers
\* The record of a call: op, its integer argument (or 0), whether it
\* succeeded, the integer it returned (or 0), the plugin it returned (or
\* NoPlugin), the branch of next_id that was taken (or ""), and the failure
\* value it was given (or "").
Call(op, id, ok, val, plug, path, msg) ==
    [op |-> op, id |-> id, ok |-> ok, val |-> val, plug |-> plug,
     path |-> path, msg |-> msg]

\* BTreeMap::new()
EmptyMap == [k \in {} |-> NoPlugin]

\* Mutant: exhaustion detected only after the counter has wrapped.
ExhaustedNegative(c) == c < 0

\* self.next_id.load(SeqCst) == PluginIndex::MAX
Exhausted(c) == c = MAX

\* Mutant: the threshold compared with > instead of >=.
ShouldReuseStrict(q, exhausted) == Len(q) > START_REUSING_IDS \/ exhausted

\* Mutant: any reclaimed id is reused at once, the threshold forgotten.
ShouldReuseAny(q, exhausted) == Len(q) >= 1 \/ exhausted

\* Mutant: the "|| exhausted" of the reuse condition left out.
ShouldReuseThresholdOnly(q, exhausted) == Len(q) >= START_REUSING_IDS

\* Mutant: the threshold reached one entry early.
ShouldReuseEarly(q, exhausted) == Len(q) >= START_REUSING_IDS - 1 \/ exhausted

\* self.reclaimed_ids.len() >= START_REUSING_IDS || exhausted
ShouldReuse(q, exhausted) == Len(q) >= START_REUSING_IDS \/ exhausted

\* Mutant: the counter stepped the wrong way.
FetchSub(c) == IF c = MIN THEN MAX ELSE c - 1

\* Mutant: the counter stepped by two.
FetchAddTwo(c) == IF c >= MAX - 1 THEN MIN ELSE c + 2

\* AtomicI32::fetch_add(1): the stored value after the add, wrapping at 32 bits.
FetchAdd(c) == IF c = MAX THEN MIN ELSE c + 1

\* VecDeque::pop_front: the element it yields (the queue is non-empty).
Front(q) == Head(q)

\* VecDeque::pop_front: the queue that is left.
PopFront(q) == Tail(q)

\* Mutant: the released id put at the front of the queue.
PushFront(q, id) == <<id>> \o q

\* Mutant: an id already waiting in the queue is not queued again.
PushBackUnique(q, id) == IF id \in Range(q) THEN q ELSE Append(q, id)

\* VecDeque::push_back
PushBack(q, id) == Append(q, id)

\* Mutant: the entry is left in the map.
MapRemoveNone(m, id) == m

\* BTreeMap::remove(&id)
MapRemove(m, id) == [k \in (DOMAIN m) \ {id} |-> m[k]]

\* BTreeMap::insert(id, plugin)
MapInsert(m, id, p) == [k \in (DOMAIN m) \cup {id} |-> IF k = id THEN p ELSE m[k]]

\* Mutant: the lookup ignores the key and yields the first entry.
GetMutFirst(m, id) ==
    IF DOMAIN m = {} THEN NoPlugin ELSE m[CHOOSE k \in DOMAIN m : TRUE]

\* BTreeMap::get_mut(&id)
GetMut(m, id) == IF id \in DOMAIN m THEN m[id] ELSE NoPlugin

\* error_string(e): the stored representation of a failure value.
error_string(e) == "Error(" \o e \o ")"

\* Mutant: a failure is stored only while the slot is empty.
StoreErrorKeepFirst(slot, e) ==
    IF slot.some THEN slot ELSE [some |-> TRUE, msg |-> error_string(e)]

\* self.error = Some(error_string(e)): the slot after the assignment.
StoreError(slot, e) == [some |-> TRUE, msg |-> error_string(e)]

\* Context::error hands back its last parameter.
HandBack(x) == x

\* ------------------------------------------------------------ initial states
\* Context::new()
New ==
    /\ plugins = EmptyMap
    /\ error = NoError
    /\ next_id = 0
    /\ reclaimed_ids = <<>>

\* A Context after c calls of next_id followed by remove(0), ..., remove(k-1),
\* none of them reaching the reuse threshold.
Churned(c, k) ==
    /\ plugins = EmptyMap
    /\ error = NoError
    /\ next_id = c
    /\ reclaimed_ids = Iota(k)

\* The explored runs start from a new Context, from a churned session one
\* removal short of the reuse threshold, or from a long-lived session close to
\* MAX in which handle 0 is reclaimed and waiting.
Init ==
    /\ \/ New
       \/ Churned(Allocated, Backlog)
       \/ Churned(NearMax, 1)
    /\ last = Call("new", 0, TRUE, 0, NoPlugin, "", "")
    /\ returned = {i \in KnownIds : 0 <= i /\ i < next_id}
    /\ held = {}
    /\ removedSeq = reclaimed_ids
    /\ reusedSeq = <<>>
    /\ nfresh = 0
    /\ nremoves = 0
    /\ boot = [start |-> next_id, backlog |-> Len(reclaimed_ids)]
    /\ race = Idle

\* ------------------------------------------------------------ operations
\* Context::next_id, the branch that returns a reclaimed id.
NextIdReuse ==
    /\ ShouldReuse(reclaimed_ids, Exhausted(next_id))
    /\ reclaimed_ids # <<>>
    /\ reclaimed_ids' = PopFront(reclaimed_ids)
    /\ last' = Call("next_id", 0, TRUE, Front(reclaimed_ids), NoPlugin, "reuse", "")
    /\ returned' = returned \cup {Front(reclaimed_ids)}
    /\ held' = held \cup {Front(reclaimed_ids)}
    /\ reusedSeq' = Append(reusedSeq, Front(reclaimed_ids))
    /\ UNCHANGED <<boot, race, plugins, error, next_id, removedSeq, nfresh, nremoves>>

\* Mutant: the inner exhaustion test left out, so the call falls through to
\* the fetch_add.
NextIdExhaustedFallsThrough ==
    /\ ShouldReuse(reclaimed_ids, Exhausted(next_id))
    /\ reclaimed_ids = <<>>
    /\ Exhausted(next_id)
    /\ next_id' = FetchAdd(next_id)
    /\ last' = Call("next_id", 0, TRUE, next_id, NoPlugin, "fresh", "")
    /\ returned' = returned \cup {next_id}
    /\ held' = held \cup {next_id}
    /\ UNCHANGED <<boot, race, plugins, error, reclaimed_ids, removedSeq, reusedSeq,
                   nfresh, nremoves>>

\* Context::next_id, the branch that fails: exhausted and nothing to reuse.
NextIdExhausted ==
    /\ ShouldReuse(reclaimed_ids, Exhausted(next_id))
    /\ reclaimed_ids = <<>>
    /\ Exhausted(next_id)
    /\ last' = Call("next_id", 0, FALSE, 0, NoPlugin, "exhausted", ExhaustedError)
    /\ UNCHANGED <<boot, race, plugins, error, next_id, reclaimed_ids, returned, held,
                   removedSeq, reusedSeq, nfresh, nremoves>>

\* Mutant: the value after the increment is returned (add_fetch).
NextIdFreshPostValue ==
    /\ \/ ~ShouldReuse(reclaimed_ids, Exhausted(next_id))
       \/ (reclaimed_ids = <<>> /\ ~Exhausted(next_id))
    /\ nfresh < MaxFresh
    /\ next_id' = FetchAdd(next_id)
    /\ last' = Call("next_id", 0, TRUE, FetchAdd(next_id), NoPlugin, "fresh", "")
    /\ returned' = returned \cup {FetchAdd(next_id)}
    /\ held' = held \cup {FetchAdd(next_id)}
    /\ nfresh' = nfresh + 1
    /\ UNCHANGED <<boot, race, plugins, error, reclaimed_ids, removedSeq, reusedSeq, nremoves>>

\* Context::next_id, the branch that post-increments the counter.
NextIdFresh ==
    /\ \/ ~ShouldReuse(reclaimed_ids, Exhausted(next_id))
       \/ (reclaimed_ids = <<>> /\ ~Exhausted(next_id))
    /\ nfresh < MaxFresh
    /\ next_id' = FetchAdd(next_id)
    /\ last' = Call("next_id", 0, TRUE, next_id, NoPlugin, "fresh", "")
    /\ returned' = returned \cup {next_id}
    /\ held' = held \cup {next_id}
    /\ nfresh' = nfresh + 1
    /\ UNCHANGED <<boot, race, plugins, error, reclaimed_ids, removedSeq, reusedSeq, nremoves>>

\* Context::next_id
NextId == NextIdReuse \/ NextIdExhausted \/ NextIdFresh

\* Context::set_error
SetError ==
    \E e \in Failures :
        /\ error' = StoreError(error, e)
        /\ last' = Call("set_error", 0, TRUE, 0, NoPlugin, "", e)
        /\ UNCHANGED <<boot, race, plugins, next_id, reclaimed_ids, returned, held,
                       removedSeq, reusedSeq, nfresh, nremoves>>

\* Context::error: set_error(e), then hand x back.
ErrorAndReturn ==
    \E e \in Failures, x \in KnownIds :
        /\ error' = StoreError(error, e)
        /\ last' = Call("error", x, TRUE, HandBack(x), NoPlugin, "", e)
        /\ UNCHANGED <<boot, race, plugins, next_id, reclaimed_ids, returned, held,
                       removedSeq, reusedSeq, nfresh, nremoves>>

\* Context::plugin
Plugin ==
    \E id \in KnownIds \cup returned :
        /\ last' = Call("plugin", id, TRUE, 0, GetMut(plugins, id), "", "")
        /\ UNCHANGED <<boot, race, plugins, error, next_id, reclaimed_ids, returned, held,
                       removedSeq, reusedSeq, nfresh, nremoves>>

\* Context::remove(id)
RemoveId(id) ==
    /\ nremoves < MaxRemoves
    /\ plugins' = MapRemove(plugins, id)
    /\ reclaimed_ids' = PushBack(reclaimed_ids, id)
    /\ last' = Call("remove", id, TRUE, 0, NoPlugin, "", "")
    /\ removedSeq' = Append(removedSeq, id)
    /\ nremoves' = nremoves + 1
    /\ UNCHANGED <<boot, race, error, next_id, returned, held, reusedSeq, nfresh>>

\* Context::remove, called with any id: a known one or one next_id returned.
Remove == \E id \in KnownIds \cup returned : RemoveId(id)

\* Context::remove, called only with an id that next_id returned before.
RemoveReturned == \E id \in returned : RemoveId(id)

\* Context::remove, called only with an id that is currently a key.
RemoveLive == \E id \in DOMAIN plugins : RemoveId(id)

\* ctx.plugins.insert(id, plugin)
InsertId(id, p) ==
    /\ plugins' = MapInsert(plugins, id, p)
    /\ held' = held \ {id}
    /\ last' = Call("insert", id, TRUE, 0, p, "", "")
    /\ UNCHANGED <<boot, race, error, next_id, reclaimed_ids, returned,
                   removedSeq, reusedSeq, nfresh, nremoves>>

\* insert, by a caller that passes an id it obtained from next_id at some
\* time and that is not currently a key.
Insert ==
    \E id \in returned, p \in Plugins : id \notin DOMAIN plugins /\ InsertId(id, p)

\* insert, by a caller that passes an id it obtained from next_id and has not
\* inserted since, and that is not currently a key.
InsertHeld ==
    \E id \in held, p \in Plugins : id \notin DOMAIN plugins /\ InsertId(id, p)

Next == NextId \/ SetError \/ ErrorAndReturn \/ Plugin \/ Remove \/ Insert

Spec == Init /\ [][Next]_vars

\* The callers of SpecReturned pass to insert and remove only ids that next_id
\* returned before.
NextReturned ==
    NextId \/ SetError \/ ErrorAndReturn \/ Plugin \/ RemoveReturned \/ Insert

SpecReturned == Init /\ [][NextReturned]_vars

\* The callers of SpecHeld insert each handle at most once per allocation, and
\* pass any id to remove.
NextHeld ==
    NextId \/ SetError \/ ErrorAndReturn \/ Plugin \/ Remove \/ InsertHeld

SpecHeld == Init /\ [][NextHeld]_vars

\* The callers of SpecStrict insert each handle at most once per allocation
\* and remove only ids that are keys.
NextStrict ==
    NextId \/ SetError \/ ErrorAndReturn \/ Plugin \/ RemoveLive \/ InsertHeld

SpecStrict == Init /\ [][NextStrict]_vars

\* ------------------------------------------------------------ racing next_id
\* What a racing next_id call leaves alone besides the counter and the queue.
RaceFrame ==
    UNCHANGED <<plugins, error, last, returned, held, removedSeq, reusedSeq,
                nfresh, nremoves, boot>>

\* next_id, first counter step: self.next_id.load(SeqCst).
RaceLoad(t) ==
    /\ race[t].pc = "idle"
    /\ race' = [race EXCEPT ![t] = [pc |-> "loaded", seen |-> next_id,
                                    ok |-> FALSE, got |-> 0]]
    /\ UNCHANGED <<next_id, reclaimed_ids>>
    /\ RaceFrame

\* next_id after its load, the branch that returns a reclaimed id.
RaceReuse(t) ==
    /\ race[t].pc = "loaded"
    /\ ShouldReuse(reclaimed_ids, Exhausted(race[t].seen))
    /\ reclaimed_ids # <<>>
    /\ reclaimed_ids' = PopFront(reclaimed_ids)
    /\ race' = [race EXCEPT ![t].pc = "done", ![t].ok = TRUE,
                            ![t].got = Front(reclaimed_ids)]
    /\ UNCHANGED next_id
    /\ RaceFrame

\* next_id after its load, the branch that fails.
RaceExhausted(t) ==
    /\ race[t].pc = "loaded"
    /\ ShouldReuse(reclaimed_ids, Exhausted(race[t].seen))
    /\ reclaimed_ids = <<>>
    /\ Exhausted(race[t].seen)
    /\ race' = [race EXCEPT ![t].pc = "done", ![t].ok = FALSE]
    /\ UNCHANGED <<next_id, reclaimed_ids>>
    /\ RaceFrame

\* Mutant: the increment done as a store of the loaded value plus one.
RaceLoadStore(t) ==
    /\ race[t].pc = "loaded"
    /\ \/ ~ShouldReuse(reclaimed_ids, Exhausted(race[t].seen))
       \/ (reclaimed_ids = <<>> /\ ~Exhausted(race[t].seen))
    /\ next_id' = FetchAdd(race[t].seen)
    /\ race' = [race EXCEPT ![t].pc = "done", ![t].ok = TRUE,
                            ![t].got = race[t].seen]
    /\ UNCHANGED reclaimed_ids
    /\ RaceFrame

\* next_id after its load, second counter step: fetch_add(1, SeqCst), which
\* reads and adds to the counter as it is now, in one step.
RaceFetchAdd(t) ==
    /\ race[t].pc = "loaded"
    /\ \/ ~ShouldReuse(reclaimed_ids, Exhausted(race[t].seen))
       \/ (reclaimed_ids = <<>> /\ ~Exhausted(race[t].seen))
    /\ next_id' = FetchAdd(next_id)
    /\ race' = [race EXCEPT ![t].pc = "done", ![t].ok = TRUE,
                            ![t].got = next_id]
    /\ UNCHANGED reclaimed_ids
    /\ RaceFrame

\* Each caller makes one next_id call; their counter steps interleave.
NextRace ==
    \E t \in Threads :
        RaceLoad(t) \/ RaceReuse(t) \/ RaceExhausted(t) \/ RaceFetchAdd(t)

SpecRace == Init /\ [][NextRace]_vars

\* ------------------------------------------------------------ properties
\* A step that is a call of next_id.
IsNextId == last'.op = "next_id"

\* C1: next_id never returns an id that is currently a key of plugins, when
\* insert is called only with ids next_id returned and that are not keys, and
\* remove is called with any id.
C1_NextIdNotLive ==
    (last.op = "next_id" /\ last.ok) => last.val \notin DOMAIN plugins

\* C2 (I1): no id is at once a key of plugins and an element of reclaimed_ids.
C2_LiveNotReclaimed == DOMAIN plugins \cap Range(reclaimed_ids) = {}

\* C3: with the counter at MAX and reclaimed_ids empty, next_id fails and
\* leaves the counter, reclaimed_ids and plugins as they were; only a remove
\* takes the Context out of that state.
C3_ExhaustionDeterminism ==
    [][(next_id = MAX /\ reclaimed_ids = <<>>)
        => /\ IsNextId => /\ ~last'.ok
                          /\ UNCHANGED <<next_id, reclaimed_ids, plugins>>
           /\ ~(next_id' = MAX /\ reclaimed_ids' = <<>>) => last'.op = "remove"]_vars

C3_Witness ==
    /\ last.op = "next_id" /\ ~last.ok
    /\ next_id = MAX /\ reclaimed_ids = <<>>
    /\ DOMAIN plugins # {}

\* C4: with at least START_REUSING_IDS ids in reclaimed_ids, next_id returns
\* the oldest of them, removes exactly that one, and leaves the counter alone.
C4_ThresholdReuse ==
    [][(Len(reclaimed_ids) >= START_REUSING_IDS /\ IsNextId)
        => /\ last'.ok
           /\ last'.val = reclaimed_ids[1]
           /\ reclaimed_ids' = SubSeq(reclaimed_ids, 2, Len(reclaimed_ids))
           /\ next_id' = next_id]_vars

\* 30 handles allocated, 25 ids reclaimed, and next_id has just returned 0.
C4_Witness ==
    /\ last.op = "next_id" /\ last.ok /\ last.val = 0
    /\ next_id = START_REUSING_IDS + 5
    /\ Len(reclaimed_ids) = START_REUSING_IDS - 1
    /\ Len(reusedSeq) = 1

\* C5: the reclaimed ids next_id has returned are, in order, a prefix of the
\* ids passed to remove, and the ids still queued are the rest of them.
C5_FifoReuse == removedSeq = reusedSeq \o reclaimed_ids

C5_Witness ==
    /\ Len(reusedSeq) >= 2
    /\ nremoves >= 1
    /\ reusedSeq[Len(reusedSeq)] = removedSeq[Len(removedSeq)]

C7_MonotonicCounter ==
    [][/\ next_id' >= next_id
       /\ last'.op = "remove" => next_id' = next_id
       /\ (IsNextId /\ reusedSeq' # reusedSeq) => next_id' = next_id]_vars

C7_Witness ==
    /\ last.op = "next_id" /\ last.ok
    /\ reusedSeq # <<>>
    /\ nfresh >= 1
    /\ nremoves >= 1

\* C8: the counter stays within 0 .. MAX; a next_id call made with the counter
\* at MAX does not add to it; once at MAX the counter stays there and every
\* handle next_id returns was in reclaimed_ids when it was called.
C8_MaxAbsorbing ==
    /\ [](0 <= next_id /\ next_id <= MAX)
    /\ [][next_id = MAX
            => /\ next_id' = MAX
               /\ (IsNextId /\ last'.ok) => /\ reclaimed_ids # <<>>
                                            /\ last'.val \in Range(reclaimed_ids)]_vars

C8_Witness ==
    /\ next_id = MAX
    /\ nfresh >= 1
    /\ last.op = "next_id" /\ last.ok

\* C9: remove(id) deletes the entry of id and no other, appends id once to the
\* back of reclaimed_ids whether or not id was a key or was queued already,
\* leaves the counter and the error slot alone, and does not fail.
C9_RemoveContract ==
    [][last'.op = "remove"
        => /\ last'.ok
           /\ DOMAIN plugins' = (DOMAIN plugins) \ {last'.id}
           /\ \A k \in DOMAIN plugins' : plugins'[k] = plugins[k]
           /\ reclaimed_ids' = Append(reclaimed_ids, last'.id)
           /\ next_id' = next_id
           /\ error' = error]_vars

\* remove of an id that was queued already, with another plugin still live.
C9_Witness ==
    /\ last.op = "remove"
    /\ Cardinality({i \in 1..Len(reclaimed_ids) : reclaimed_ids[i] = last.id}) = 2
    /\ DOMAIN plugins # {}

\* C10: plugin(id) yields the stored plugin exactly when id is a key and
\* nothing otherwise, and changes neither plugins, the counter, reclaimed_ids
\* nor the error slot; right after insert(id, p) it yields p, right after
\* remove(id) nothing.
C10_LookupContract ==
    [][/\ last'.op = "plugin"
            => /\ last'.ok
               /\ last'.id \in DOMAIN plugins => last'.plug = plugins[last'.id]
               /\ last'.id \notin DOMAIN plugins => last'.plug = NoPlugin
               /\ UNCHANGED <<plugins, next_id, reclaimed_ids, error>>
       /\ (last.op = "insert" /\ last'.op = "plugin" /\ last'.id = last.id)
            => last'.plug = last.plug
       /\ (last.op = "remove" /\ last'.op = "plugin" /\ last'.id = last.id)
            => last'.plug = NoPlugin]_vars

\* a lookup that found its plugin among two live plugins that differ.
C10_Witness ==
    /\ last.op = "plugin"
    /\ last.plug \in Plugins
    /\ \E k \in DOMAIN plugins : plugins[k] # last.plug

\* C11: after next_id has returned the exhaustion error, the error slot holds
\* a description of that failure.
C11_FailureRecorded ==
    (last.op = "next_id" /\ ~last.ok)
        => (error.some /\ error.msg = error_string(last.msg))

\* C12: set_error and error leave in the slot the representation of the
\* failure they were given, whatever it held, and change neither plugins, the
\* counter nor reclaimed_ids; error returns its last parameter; no other
\* operation changes the slot.
C12_ErrorSlotOverwrite ==
    [][/\ last'.op \in {"set_error", "error"}
            => /\ error'.some
               /\ error'.msg = error_string(last'.msg)
               /\ UNCHANGED <<plugins, next_id, reclaimed_ids>>
       /\ last'.op = "error" => last'.val = last'.id
       /\ last'.op \notin {"set_error", "error"} => error' = error]_vars

\* error(e2, 0) has just returned 0 on a Context holding a plugin and a
\* reclaimed id.
C12_Witness ==
    /\ last.op = "error" /\ last.msg = "e2" /\ last.val = 0
    /\ error = [some |-> TRUE, msg |-> error_string("e2")]
    /\ DOMAIN plugins # {}
    /\ reclaimed_ids # <<>>

\* C13: a new Context has counter 0, no plugins, no reclaimed ids and no
\* error; with fewer than START_REUSING_IDS reclaimed ids and the counter
\* below MAX, next_id returns the counter, adds one to it and leaves
\* reclaimed_ids, plugins and the error slot alone; with no removal the n-th
\* allocation returns n-1.
C13_FreshPath ==
    /\ []((boot.start = 0 /\ last.op = "new")
            => (next_id = 0 /\ DOMAIN plugins = {} /\ reclaimed_ids = <<>>
                /\ ~error.some))
    /\ [][(Len(reclaimed_ids) < START_REUSING_IDS /\ next_id < MAX /\ IsNextId)
            => /\ last'.ok
               /\ last'.val = next_id
               /\ next_id' = next_id + 1
               /\ UNCHANGED <<reclaimed_ids, plugins, error>>]_vars
    /\ []((boot.start = 0 /\ removedSeq = <<>> /\ last.op = "next_id")
            => (last.val = nfresh - 1 /\ next_id = nfresh))

\* the second allocation returned 1 while a reclaimed id was waiting.
C13_Witness ==
    /\ boot.start = 0
    /\ last.op = "next_id" /\ last.ok /\ last.val = 1
    /\ nfresh = 2
    /\ reclaimed_ids # <<>>

\* C14: with the counter at MAX and reclaimed_ids non-empty, next_id returns
\* the oldest reclaimed id, whatever the queue length, and leaves the counter
\* at MAX; after a remove(id) in the exhausted state the next next_id returns
\* id and the state is exhausted again.
C14_ReuseOnExhaustion ==
    [][(next_id = MAX /\ reclaimed_ids # <<>> /\ IsNextId)
        => /\ last'.ok
           /\ last'.val = reclaimed_ids[1]
           /\ reclaimed_ids' = SubSeq(reclaimed_ids, 2, Len(reclaimed_ids))
           /\ next_id' = MAX
           /\ (last.op = "remove" /\ Len(reclaimed_ids) = 1)
                => (last'.val = last.id /\ reclaimed_ids' = <<>>)]_vars

\* the id removed in the exhausted state came back and the queue is empty again.
C14_Witness ==
    /\ last.op = "next_id" /\ last.ok
    /\ next_id = MAX /\ reclaimed_ids = <<>>
    /\ nremoves >= 1
    /\ last.val = removedSeq[Len(removedSeq)]
    /\ Len(reusedSeq) >= 2

\* C15: every handle next_id returns lies in 0 .. MAX, also after remove was
\* called with negative ids or ids never allocated.
C15_HandleDomain ==
    (last.op = "next_id" /\ last.ok) => (0 <= last.val /\ last.val <= MAX)

\* The racing callers that have returned from next_id.
RaceDone == {t \in Threads : race[t].pc = "done"}

\* C16: when the reclaimed ids are below the threshold and the counter is low
\* enough for every caller to stay below MAX, racing next_id calls each obtain
\* a different counter value and the counter has grown by the number of calls
\* that returned.
C16_AtomicCounter ==
    (boot.backlog < START_REUSING_IDS /\ boot.start <= MAX - NThreads)
        => /\ \A t \in RaceDone : race[t].ok
           /\ \A t, u \in RaceDone : t # u => race[t].got # race[u].got
           /\ \A t \in RaceDone : boot.start <= race[t].got /\ race[t].got < next_id
           /\ next_id = boot.start + Cardinality(RaceDone)

\* every caller has returned, in a session with reclaimed ids waiting.
C16_Witness ==
    /\ RaceDone = Threads
    /\ reclaimed_ids # <<>>
    /\ boot.start <= MAX - NThreads

\* The handles allocated before the run starts and never inserted: those from
\* boot.backlog up to boot.start - 1.
IdleCount == boot.start - boot.backlog

IsIdle(x) == boot.backlog <= x /\ x < boot.start

\* C17: when remove is called only with keys and insert only with a handle
\* returned by next_id and not inserted since, the handles below the counter
\* are each in exactly one place: a key of plugins, once in reclaimed_ids, or
\* returned and not yet inserted; so no key is queued and next_id returns no
\* key.
C17_HandlePartition ==
    LET keys == DOMAIN plugins
        queued == Range(reclaimed_ids)
    IN  /\ keys \cap queued = {}
        /\ keys \cap held = {}
        /\ queued \cap held = {}
        /\ Cardinality(queued) = Len(reclaimed_ids)
        /\ \A x \in keys \cup queued \cup held :
                0 <= x /\ x < next_id /\ ~IsIdle(x)
        /\ Cardinality(keys) + Len(reclaimed_ids) + Cardinality(held) + IdleCount
                = next_id
        /\ (last.op = "next_id" /\ last.ok) => last.val \notin keys

\* a live plugin, a queued id and a handle not yet inserted, after a reuse.
C17_Witness ==
    /\ DOMAIN plugins # {}
    /\ reclaimed_ids # <<>>
    /\ held # {}
    /\ reusedSeq # <<>>
    /\ nremoves >= 1

\* C18: a next_id call that adds to the counter returns the value the counter
\* had, which is at most MAX - 1, and the call that returns MAX - 1 leaves the
\* counter at MAX.
C18_MaxNeverFresh ==
    [][(IsNextId /\ nfresh' # nfresh)
        => /\ last'.ok
           /\ last'.val = next_id
           /\ last'.val <= MAX - 1
           /\ last'.val = MAX - 1 => next_id' = MAX]_vars

\* the last fresh handle, MAX - 1, was issued and next_id then failed.
C18_Witness ==
    /\ next_id = MAX
    /\ MAX - 1 \in returned
    /\ last.op = "next_id" /\ ~last.ok

\* C19: with the counter below MAX next_id takes from reclaimed_ids only at
\* START_REUSING_IDS entries or more, so a queue of START_REUSING_IDS - 1 or
\* more keeps that many, and with exactly START_REUSING_IDS - 1 entries next_id
\* returns the counter, not the oldest reclaimed id.
C19_OneAtATime ==
    [][(next_id < MAX /\ IsNextId)
        => /\ Len(reclaimed_ids') < Len(reclaimed_ids)
                => Len(reclaimed_ids) >= START_REUSING_IDS
           /\ Len(reclaimed_ids') >= Len(reclaimed_ids) - 1
           /\ Len(reclaimed_ids) >= START_REUSING_IDS - 1
                => Len(reclaimed_ids') >= START_REUSING_IDS - 1
           /\ Len(reclaimed_ids) = START_REUSING_IDS - 1
                => (last'.val = next_id /\ reclaimed_ids' = reclaimed_ids)]_vars

\* 0 was reused at the threshold and the next allocation returned 30.
C19_Witness ==
    /\ last.op = "next_id" /\ last.ok /\ last.val = START_REUSING_IDS + 5
    /\ reusedSeq = <<0>>
    /\ Len(reclaimed_ids) = START_REUSING_IDS - 1
    /\ next_id = START_REUSING_IDS + 6

====
